---- MODULE Spec2Model ----
(***************************************************************************)
(* Model of the socket.io room server in src/src/socket/socket.ts: the     *)
(* process-wide room registry, the per-connection closure variables, the   *)
(* socket.io room subscriptions and one action per event handler.          *)
(***************************************************************************)
EXTENDS Integers, Sequences, FiniteSets, TLC

\* ------------------------------------------------------------------ bounds
\* strokes the server may hold (logs and redo stacks of all rooms together)
MaxStrokes == 1
MaxDrawStrokes == 3

\* ------------------------------------------------------------------ inputs
Null == "null"
Conns == {"c1", "c2"}
RoomIds == {"r1", "r2"}
UserIds == {"A", "B"}
UserNames == {"name"}
UserColors == {"red"}
StreamInputs == {[strokeId |-> "s1", userId |-> "A", point |-> "p1", isStart |-> TRUE]}
S1 == [id |-> "s1", userId |-> "A"]
S2 == [id |-> "s2", userId |-> "B"]

\* The events each connection sends. Presence: c1 moves between two rooms as
\* A, c2 stays with r1 as A or B (shares c1's id, or names another
\* participant), one stroke. Drawing: both connections in one room under
\* their own ids, two strokes by different authors, a cursor that moves.
Presence ==
  [rooms |-> [c \in Conns |-> IF c = "c1" THEN {"r1", "r2"} ELSE {"r1"}],
   users |-> [c \in Conns |-> IF c = "c1" THEN {"A"} ELSE {"A", "B"}],
   positions |-> [c \in Conns |-> {Null}],
   strokes |-> {S1},
   cap |-> MaxStrokes]

Drawing ==
  [rooms |-> [c \in Conns |-> {"r1"}],
   users |-> [c \in Conns |-> IF c = "c1" THEN {"A"} ELSE {"B"}],
   positions |-> [c \in Conns |-> IF c = "c1" THEN {Null} ELSE {"p1"}],
   strokes |-> {S1, S2},
   cap |-> MaxDrawStrokes]

\* ------------------------------------------------------------------- state
VARIABLES
  rooms,          \* the rooms Map: a function whose DOMAIN is the set of room ids present
  status,         \* per connection: "new" (not yet connected), "live", "closed"
  currentRoomId,  \* per connection closure variable, Null or a room id
  currentUserId,  \* per connection closure variable, Null or a user id
  joined,         \* per connection: the socket.io rooms the socket is subscribed to
  trace,          \* ordered effects (participant mutations and emits) of the last handler
  last,           \* the inbound event the last handler processed, with its pre-state
  run,            \* per room: the append/undo/redo run in progress since the log was empty
  registeredBy    \* per participant record: the connection whose join-room wrote it

vars == <<rooms, status, currentRoomId, currentUserId, joined, trace, last, run,
          registeredBy>>

\* --------------------------------------------------------- JS value helpers
\* JS truthiness of a string | null (if (currentRoomId), a || '')
Truthy(v) == v # Null /\ v # ""

OrEmpty(v) == IF Truthy(v) THEN v ELSE ""

Front(s) == SubSeq(s, 1, Len(s) - 1)

LastOf(s) == s[Len(s)]

Reverse(s) == [i \in 1..Len(s) |-> s[Len(s) + 1 - i]]

\* ------------------------------------------------ Map<string, User> as a
\* sequence of User records with distinct ids, in insertion order
UsersHas(users, id) == \E i \in 1..Len(users) : users[i].id = id

UsersDelete(users, id) == SelectSeq(users, LAMBDA u : u.id # id)

UsersSet(users, user) ==
  IF UsersHas(users, user.id)
  THEN [i \in 1..Len(users) |-> IF users[i].id = user.id THEN user ELSE users[i]]
  ELSE Append(users, user)

UserIdsOf(users) == {users[i].id : i \in 1..Len(users)}

NewUser(userId, userName, userColor) ==
  [id |-> userId, name |-> userName, color |-> userColor, cursor |-> Null, isOnline |-> TRUE]

\* ------------------------------------------------------------ the registry
EmptyRoom == [users |-> <<>>, strokes |-> <<>>, redoStack |-> <<>>]

RoomsDelete(rs, roomId) == [r \in (DOMAIN rs) \ {roomId} |-> rs[r]]

getOrCreateRoom(rs, roomId) ==
  IF roomId \in DOMAIN rs THEN rs ELSE (roomId :> EmptyRoom) @@ rs

getUsersArray(room) == room.users

\* ------------------------------------------------------ socket.io fan-out
\* io.to(roomId): every live socket subscribed to roomId
IoTo(st, j, roomId) == {c \in Conns : st[c] = "live" /\ roomId \in j[c]}

\* socket.to(roomId): the same, except the sending socket
SocketTo(st, j, c, roomId) == IoTo(st, j, roomId) \ {c}

\* socket.emit: the sending socket only
SocketSelf(st, c) == {c}

Emit(kind, roomId, to, payload) ==
  [kind |-> kind, roomId |-> roomId, to |-> to, payload |-> payload]

\* a mutation of a room's participant map or of the registry, recorded in
\* program order between the emits
Mut(kind, roomId, payload) ==
  [kind |-> kind, roomId |-> roomId, to |-> {}, payload |-> payload]

IsEmit(e) == e.kind \notin {"users.delete", "users.set", "rooms.delete"}

\* ----------------------------------------------------------------- handlers
\* Each handler is a function of the state it reads; it returns the state it
\* leaves and the ordered effects it produced.
Result(rs, cr, cu, j, t) ==
  [rooms |-> rs, currentRoomId |-> cr, currentUserId |-> cu, joined |-> j, trace |-> t]

\* JOIN_ROOM, the "leave previous room if any" block
LeavePrevious(rs, st, j, cr, cu, c) ==
  LET prev == cr[c]
      j1 == IF Truthy(prev) THEN [j EXCEPT ![c] = @ \ {prev}] ELSE j
      hasPrev == Truthy(prev) /\ prev \in DOMAIN rs
      rs1 == IF hasPrev
             THEN [rs EXCEPT ![prev].users = UsersDelete(@, OrEmpty(cu[c]))]
             ELSE rs
      t1 == IF hasPrev
            THEN << Mut("users.delete", prev, OrEmpty(cu[c])),
                    Emit("user:leave", prev, IoTo(st, j1, prev), [userId |-> cu[c]]),
                    Emit("users:list", prev, IoTo(st, j1, prev), getUsersArray(rs1[prev])) >>
            ELSE << >>
  IN Result(rs1, cr, cu, j1, t1)

\* faulty variant: the new room's join effects run before the previous room is left
JoinRoom_JoinFirst(rs, st, j, cr, cu, c, roomId, userId, userName, userColor) ==
  LET j2 == [j EXCEPT ![c] = @ \cup {roomId}]
      rs2 == getOrCreateRoom(rs, roomId)
      user == NewUser(userId, userName, userColor)
      rs3 == [rs2 EXCEPT ![roomId].users = UsersSet(@, user)]
      t2 == << Mut("users.set", roomId, userId),
               Emit("room:joined", roomId, SocketSelf(st, c),
                    [users |-> getUsersArray(rs3[roomId]), strokes |-> rs3[roomId].strokes]),
               Emit("user:join", roomId, SocketTo(st, j2, c, roomId), user),
               Emit("users:list", roomId, IoTo(st, j2, roomId), getUsersArray(rs3[roomId])) >>
      left == LeavePrevious(rs3, st, j2, cr, cu, c)
  IN Result(left.rooms, [cr EXCEPT ![c] = roomId], [cu EXCEPT ![c] = userId],
            [left.joined EXCEPT ![c] = @ \cup {roomId}], t2 \o left.trace)

\* faulty variant: participant-joined goes to the whole room, the joiner included
JoinRoom_EchoJoin(rs, st, j, cr, cu, c, roomId, userId, userName, userColor) ==
  LET left == LeavePrevious(rs, st, j, cr, cu, c)
      j2 == [left.joined EXCEPT ![c] = @ \cup {roomId}]
      rs2 == getOrCreateRoom(left.rooms, roomId)
      user == NewUser(userId, userName, userColor)
      rs3 == [rs2 EXCEPT ![roomId].users = UsersSet(@, user)]
      t2 == << Mut("users.set", roomId, userId),
               Emit("room:joined", roomId, SocketSelf(st, c),
                    [users |-> getUsersArray(rs3[roomId]), strokes |-> rs3[roomId].strokes]),
               Emit("user:join", roomId, IoTo(st, j2, roomId), user),
               Emit("users:list", roomId, IoTo(st, j2, roomId), getUsersArray(rs3[roomId])) >>
  IN Result(rs3, [cr EXCEPT ![c] = roomId], [cu EXCEPT ![c] = userId], j2,
            left.trace \o t2)

\* JOIN_ROOM
JoinRoom(rs, st, j, cr, cu, c, roomId, userId, userName, userColor) ==
  LET left == LeavePrevious(rs, st, j, cr, cu, c)
      j2 == [left.joined EXCEPT ![c] = @ \cup {roomId}]
      rs2 == getOrCreateRoom(left.rooms, roomId)
      user == NewUser(userId, userName, userColor)
      rs3 == [rs2 EXCEPT ![roomId].users = UsersSet(@, user)]
      t2 == << Mut("users.set", roomId, userId),
               Emit("room:joined", roomId, SocketSelf(st, c),
                    [users |-> getUsersArray(rs3[roomId]), strokes |-> rs3[roomId].strokes]),
               Emit("user:join", roomId, SocketTo(st, j2, c, roomId), user),
               Emit("users:list", roomId, IoTo(st, j2, roomId), getUsersArray(rs3[roomId])) >>
  IN Result(rs3, [cr EXCEPT ![c] = roomId], [cu EXCEPT ![c] = userId], j2,
            left.trace \o t2)

\* faulty variant: the clean-up of an empty room is missing
LeaveRoom_NoCleanup(rs, st, j, cr, cu, c, roomId, userId) ==
  LET j1 == [j EXCEPT ![c] = @ \ {roomId}]
      found == roomId \in DOMAIN rs
      rs1 == IF found THEN [rs EXCEPT ![roomId].users = UsersDelete(@, userId)] ELSE rs
      t1 == IF found
            THEN << Mut("users.delete", roomId, userId),
                    Emit("user:leave", roomId, IoTo(st, j1, roomId), [userId |-> userId]),
                    Emit("users:list", roomId, IoTo(st, j1, roomId), getUsersArray(rs1[roomId])) >>
            ELSE << >>
  IN Result(rs1, [cr EXCEPT ![c] = Null], [cu EXCEPT ![c] = Null], j1, t1)

\* LEAVE_ROOM
LeaveRoom(rs, st, j, cr, cu, c, roomId, userId) ==
  LET j1 == [j EXCEPT ![c] = @ \ {roomId}]
      found == roomId \in DOMAIN rs
      rs1 == IF found THEN [rs EXCEPT ![roomId].users = UsersDelete(@, userId)] ELSE rs
      empty == found /\ Len(rs1[roomId].users) = 0
      rs2 == IF empty THEN RoomsDelete(rs1, roomId) ELSE rs1
      t1 == IF found
            THEN << Mut("users.delete", roomId, userId),
                    Emit("user:leave", roomId, IoTo(st, j1, roomId), [userId |-> userId]),
                    Emit("users:list", roomId, IoTo(st, j1, roomId), getUsersArray(rs1[roomId])) >>
            ELSE << >>
      t2 == IF empty THEN << Mut("rooms.delete", roomId, Null) >> ELSE << >>
  IN Result(rs2, [cr EXCEPT ![c] = Null], [cu EXCEPT ![c] = Null], j1, t1 \o t2)

\* faulty variant: the push without the reset of the redo stack
AppendStroke_KeepRedo(room, stroke) ==
  [room EXCEPT !.strokes = Append(@, stroke)]

\* STROKE_ADD: push the stroke, clear the redo stack
AppendStroke(room, stroke) ==
  [room EXCEPT !.strokes = Append(@, stroke), !.redoStack = << >>]

StrokeAdd(rs, st, j, cr, cu, c, roomId, stroke) ==
  IF roomId \in DOMAIN rs
  THEN Result([rs EXCEPT ![roomId] = AppendStroke(@, stroke)], cr, cu, j,
              << Emit("stroke:received", roomId, SocketTo(st, j, c, roomId), stroke) >>)
  ELSE Result(rs, cr, cu, j, << >>)

\* faulty variant: the first point of a stream is written into an empty log
StrokeStream_Persists(rs, st, j, cr, cu, c, roomId, streamData) ==
  LET rs1 == IF roomId \in DOMAIN rs /\ Len(rs[roomId].strokes) = 0
             THEN [rs EXCEPT ![roomId].strokes =
                     << [id |-> streamData.strokeId, userId |-> streamData.userId] >>]
             ELSE rs
  IN Result(rs1, cr, cu, j,
            << Emit("stroke:stream:received", roomId, SocketTo(st, j, c, roomId), streamData) >>)

\* STROKE_STREAM: relayed with no registry lookup
StrokeStream(rs, st, j, cr, cu, c, roomId, streamData) ==
  Result(rs, cr, cu, j,
         << Emit("stroke:stream:received", roomId, SocketTo(st, j, c, roomId), streamData) >>)

\* CURSOR_MOVE
SetCursor(users, userId, position) ==
  [i \in 1..Len(users) |->
     IF users[i].id = userId THEN [users[i] EXCEPT !.cursor = position] ELSE users[i]]

CursorMove(rs, st, j, cr, cu, c, roomId, userId, position) ==
  IF roomId \in DOMAIN rs
  THEN Result([rs EXCEPT ![roomId].users = SetCursor(@, userId, position)], cr, cu, j,
              << Emit("cursor:update", roomId, SocketTo(st, j, c, roomId),
                      [userId |-> userId, position |-> position]) >>)
  ELSE Result(rs, cr, cu, j, << >>)

\* faulty variant: the undone stroke goes to the bottom of the redo stack
UndoStroke_PushFront(room) ==
  [room EXCEPT !.strokes = Front(@), !.redoStack = << LastOf(room.strokes) >> \o @]

\* faulty variant: shift instead of pop, the oldest stroke is undone
UndoStroke_Shift(room) ==
  [room EXCEPT !.strokes = Tail(@), !.redoStack = Append(@, Head(room.strokes))]

\* CANVAS_UNDO: pop the log, push onto the redo stack
UndoStroke(room) ==
  [room EXCEPT !.strokes = Front(@), !.redoStack = Append(@, LastOf(room.strokes))]

\* faulty variant: the broadcast moved out of the length check
CanvasUndo_AlwaysEmits(rs, st, j, cr, cu, c, roomId) ==
  IF roomId \in DOMAIN rs
  THEN LET rs1 == IF Len(rs[roomId].strokes) > 0
                  THEN [rs EXCEPT ![roomId] = UndoStroke(@)]
                  ELSE rs
       IN Result(rs1, cr, cu, j,
                 << Emit("canvas:state", roomId, IoTo(st, j, roomId),
                         [strokes |-> rs1[roomId].strokes]) >>)
  ELSE Result(rs, cr, cu, j, << >>)

CanvasUndo(rs, st, j, cr, cu, c, roomId) ==
  IF roomId \in DOMAIN rs /\ Len(rs[roomId].strokes) > 0
  THEN LET rs1 == [rs EXCEPT ![roomId] = UndoStroke(@)]
       IN Result(rs1, cr, cu, j,
                 << Emit("canvas:state", roomId, IoTo(st, j, roomId),
                         [strokes |-> rs1[roomId].strokes]) >>)
  ELSE Result(rs, cr, cu, j, << >>)

\* faulty variant: redo restores the oldest undone stroke
RedoStroke_Bottom(room) ==
  [room EXCEPT !.redoStack = Tail(@), !.strokes = Append(@, Head(room.redoStack))]

\* CANVAS_REDO: pop the redo stack, push onto the log
RedoStroke(room) ==
  [room EXCEPT !.redoStack = Front(@), !.strokes = Append(@, LastOf(room.redoStack))]

CanvasRedo(rs, st, j, cr, cu, c, roomId) ==
  IF roomId \in DOMAIN rs /\ Len(rs[roomId].redoStack) > 0
  THEN LET rs1 == [rs EXCEPT ![roomId] = RedoStroke(@)]
       IN Result(rs1, cr, cu, j,
                 << Emit("canvas:state", roomId, IoTo(st, j, roomId),
                         [strokes |-> rs1[roomId].strokes]) >>)
  ELSE Result(rs, cr, cu, j, << >>)

\* faulty variant: the log is emptied, the redo stack is kept
ClearStrokes_KeepRedo(room) == [room EXCEPT !.strokes = << >>]

\* CANVAS_CLEAR
ClearStrokes(room) == [room EXCEPT !.strokes = << >>, !.redoStack = << >>]

CanvasClear(rs, st, j, cr, cu, c, roomId) ==
  IF roomId \in DOMAIN rs
  THEN Result([rs EXCEPT ![roomId] = ClearStrokes(@)], cr, cu, j,
              << Emit("canvas:cleared", roomId, IoTo(st, j, roomId), Null) >>)
  ELSE Result(rs, cr, cu, j, << >>)

\* faulty variant: a room that still has participants is announced as deleted
\* but kept
RoomDeleted_KeepsOccupied(rs, st, j, cr, cu, c, roomId) ==
  IF roomId \in DOMAIN rs
  THEN Result(IF Len(rs[roomId].users) = 0 THEN RoomsDelete(rs, roomId) ELSE rs,
              cr, cu, j,
              << Emit("room:deleted", roomId, IoTo(st, j, roomId),
                      [roomId |-> roomId, reason |-> "Room deleted by owner"]),
                 Mut("rooms.delete", roomId, Null) >>)
  ELSE Result(rs, cr, cu, j, << >>)

\* ROOM_DELETED
RoomDeleted(rs, st, j, cr, cu, c, roomId) ==
  IF roomId \in DOMAIN rs
  THEN Result(RoomsDelete(rs, roomId), cr, cu, j,
              << Emit("room:deleted", roomId, IoTo(st, j, roomId),
                      [roomId |-> roomId, reason |-> "Room deleted by owner"]),
                 Mut("rooms.delete", roomId, Null) >>)
  ELSE Result(rs, cr, cu, j, << >>)

\* disconnect: st and j are the status and subscriptions after socket.io has
\* closed the socket and removed it from every room, which it does before it
\* fires the event
Disconnect(rs, st, j, cr, cu, c) ==
  IF Truthy(cr[c]) /\ Truthy(cu[c]) /\ cr[c] \in DOMAIN rs
  THEN LET roomId == cr[c]
           rs1 == [rs EXCEPT ![roomId].users = UsersDelete(@, cu[c])]
           empty == Len(rs1[roomId].users) = 0
           t1 == << Mut("users.delete", roomId, cu[c]),
                    Emit("user:leave", roomId, IoTo(st, j, roomId), [userId |-> cu[c]]),
                    Emit("users:list", roomId, IoTo(st, j, roomId), getUsersArray(rs1[roomId])) >>
           t2 == IF empty THEN << Mut("rooms.delete", roomId, Null) >> ELSE << >>
       IN Result(IF empty THEN RoomsDelete(rs1, roomId) ELSE rs1, cr, cu, j, t1 \o t2)
  ELSE Result(rs, cr, cu, j, << >>)

\* -------------------------------------------------------- history variables
\* The inbound event a handler processed and the part of the state before it
\* that the properties below refer to.
RoomUsers(rs, roomId) == IF roomId \in DOMAIN rs THEN rs[roomId].users ELSE << >>

\* A join-room(r, p) immediately followed by leave-room(r, p) on the same
\* connection: what the join found.
NoTrip == [ok |-> FALSE, users |-> << >>, preRoomId |-> Null, preUserId |-> Null]

TripOf(op, c, roomId, userId) ==
  IF /\ op = "room:leave" /\ last.op = "room:join"
     /\ last.conn = c /\ last.roomId = roomId /\ last.userId = userId
  THEN [ok |-> TRUE, users |-> last.pre.users,
        preRoomId |-> last.preRoomId, preUserId |-> last.preUserId]
  ELSE NoTrip

\* known: the room the event names is in the registry; pre: that room before
\* the handler; preRoomId, preUserId: the connection's closure variables
\* before the handler; bound: the room they name is in the registry.
Event(op, c, roomId, userId, stroke) ==
  [op |-> op, conn |-> c, roomId |-> roomId, userId |-> userId, stroke |-> stroke,
   known |-> roomId \in DOMAIN rooms,
   pre |-> IF roomId \in DOMAIN rooms THEN rooms[roomId] ELSE EmptyRoom,
   preRoomId |-> currentRoomId[c],
   preUserId |-> currentUserId[c],
   bound |-> currentRoomId[c] \in DOMAIN rooms,
   trip |-> TripOf(op, c, roomId, userId)]

\* which connection's join-room registered (or last overwrote) each
\* participant record
NextRegisteredBy(res, ev) ==
  [k \in {ru \in RoomIds \X UserIds :
            ru[1] \in DOMAIN res.rooms /\ UsersHas(res.rooms[ru[1]].users, ru[2])} |->
     IF ev.op = "room:join" /\ k = <<ev.roomId, ev.userId>> THEN ev.conn
     ELSE registeredBy[k]]

\* A run on a room: the strokes appended since its log and redo stack were
\* both empty, then the undos, then the redos, with no other change of the
\* log in between. NoRun once the sequence of operations leaves that shape.
NoRun == [live |-> FALSE, adds |-> << >>, undos |-> 0, redos |-> 0]

FreshRun == [live |-> TRUE, adds |-> << >>, undos |-> 0, redos |-> 0]

RunAfter(rn, rs, op, stroke) ==
  CASE op = "stroke:add" ->
         IF rn.live /\ rn.undos = 0 /\ rn.redos = 0
         THEN [rn EXCEPT !.adds = Append(@, stroke)]
         ELSE IF Len(rs.strokes) = 0
              THEN [FreshRun EXCEPT !.adds = << stroke >>]
              ELSE NoRun
    [] op = "canvas:undo" ->
         IF rn.live /\ rn.redos = 0 /\ rn.undos < Len(rn.adds)
         THEN [rn EXCEPT !.undos = @ + 1]
         ELSE NoRun
    [] op = "canvas:redo" ->
         IF rn.live /\ rn.undos = Len(rn.adds) /\ rn.redos < Len(rn.adds)
         THEN [rn EXCEPT !.redos = @ + 1]
         ELSE NoRun
    [] op = "canvas:clear" -> FreshRun
    [] OTHER -> rn

NextRun(res, op, roomId, stroke) ==
  [r \in RoomIds |->
     IF r \notin DOMAIN res.rooms THEN NoRun
     ELSE IF r \notin DOMAIN rooms THEN FreshRun
     ELSE IF r = roomId THEN RunAfter(run[r], rooms[r], op, stroke)
     ELSE run[r]]

\* ------------------------------------------------------------------ actions
RECURSIVE SumOver(_, _)
SumOver(f, S) ==
  IF S = {} THEN 0 ELSE LET x == CHOOSE y \in S : TRUE IN f[x] + SumOver(f, S \ {x})

\* the strokes the server holds, over all rooms
Held(rs) ==
  SumOver([r \in DOMAIN rs |-> Len(rs[r].strokes) + Len(rs[r].redoStack)], DOMAIN rs)

Init ==
  /\ rooms = << >>
  /\ status = [c \in Conns |-> "new"]
  /\ currentRoomId = [c \in Conns |-> Null]
  /\ currentUserId = [c \in Conns |-> Null]
  /\ joined = [c \in Conns |-> {}]
  /\ trace = << >>
  /\ last = [op |-> "init", conn |-> Null, roomId |-> Null, userId |-> Null,
             stroke |-> Null, known |-> FALSE, pre |-> EmptyRoom, preRoomId |-> Null,
             preUserId |-> Null, bound |-> FALSE, trip |-> NoTrip]
  /\ run = [r \in RoomIds |-> NoRun]
  /\ registeredBy = << >>

\* a handler ran to completion on connection c
Handled(res, ev) ==
  /\ rooms' = res.rooms
  /\ currentRoomId' = res.currentRoomId
  /\ currentUserId' = res.currentUserId
  /\ joined' = res.joined
  /\ trace' = res.trace
  /\ last' = ev
  /\ run' = NextRun(res, ev.op, ev.roomId, ev.stroke)
  /\ registeredBy' = NextRegisteredBy(res, ev)

\* io.on('connection'): a new socket, bound to no room
Connect(c) ==
  /\ status[c] = "new"
  /\ status' = [status EXCEPT ![c] = "live"]
  /\ Handled(Result(rooms, [currentRoomId EXCEPT ![c] = Null],
                    [currentUserId EXCEPT ![c] = Null], joined, << >>),
             Event("connection", c, Null, Null, Null))

OnJoinRoom(c, roomId, userId, userName, userColor) ==
  /\ status[c] = "live"
  /\ UNCHANGED status
  /\ Handled(JoinRoom(rooms, status, joined, currentRoomId, currentUserId, c,
                      roomId, userId, userName, userColor),
             Event("room:join", c, roomId, userId, Null))

OnLeaveRoom(c, roomId, userId) ==
  /\ status[c] = "live"
  /\ UNCHANGED status
  /\ Handled(LeaveRoom(rooms, status, joined, currentRoomId, currentUserId, c, roomId, userId),
             Event("room:leave", c, roomId, userId, Null))

OnStrokeAdd(c, roomId, stroke, cap) ==
  /\ status[c] = "live"
  /\ roomId \in DOMAIN rooms => Held(rooms) - Len(rooms[roomId].redoStack) < cap
  /\ UNCHANGED status
  /\ Handled(StrokeAdd(rooms, status, joined, currentRoomId, currentUserId, c, roomId, stroke),
             Event("stroke:add", c, roomId, Null, stroke))

OnStrokeStream(c, roomId, streamData) ==
  /\ status[c] = "live"
  /\ UNCHANGED status
  /\ Handled(StrokeStream(rooms, status, joined, currentRoomId, currentUserId, c,
                          roomId, streamData),
             Event("stroke:stream", c, roomId, Null, Null))

OnCursorMove(c, roomId, userId, position) ==
  /\ status[c] = "live"
  /\ UNCHANGED status
  /\ Handled(CursorMove(rooms, status, joined, currentRoomId, currentUserId, c,
                        roomId, userId, position),
             Event("cursor:move", c, roomId, userId, Null))

OnCanvasUndo(c, roomId) ==
  /\ status[c] = "live"
  /\ UNCHANGED status
  /\ Handled(CanvasUndo(rooms, status, joined, currentRoomId, currentUserId, c, roomId),
             Event("canvas:undo", c, roomId, Null, Null))

OnCanvasRedo(c, roomId) ==
  /\ status[c] = "live"
  /\ UNCHANGED status
  /\ Handled(CanvasRedo(rooms, status, joined, currentRoomId, currentUserId, c, roomId),
             Event("canvas:redo", c, roomId, Null, Null))

OnCanvasClear(c, roomId) ==
  /\ status[c] = "live"
  /\ UNCHANGED status
  /\ Handled(CanvasClear(rooms, status, joined, currentRoomId, currentUserId, c, roomId),
             Event("canvas:clear", c, roomId, Null, Null))

OnRoomDeleted(c, roomId) ==
  /\ status[c] = "live"
  /\ UNCHANGED status
  /\ Handled(RoomDeleted(rooms, status, joined, currentRoomId, currentUserId, c, roomId),
             Event("room:deleted", c, roomId, Null, Null))

OnDisconnect(c) ==
  /\ status[c] = "live"
  /\ status' = [status EXCEPT ![c] = "closed"]
  /\ Handled(Disconnect(rooms, status', [joined EXCEPT ![c] = {}],
                        currentRoomId, currentUserId, c),
             Event("disconnect", c, currentRoomId[c], currentUserId[c], Null))

Step(in) ==
  \/ \E c \in Conns : Connect(c)
  \/ \E c \in Conns : \E roomId \in in.rooms[c], userId \in in.users[c],
        userName \in UserNames, userColor \in UserColors :
       OnJoinRoom(c, roomId, userId, userName, userColor)
  \/ \E c \in Conns : \E roomId \in in.rooms[c], userId \in in.users[c] :
       OnLeaveRoom(c, roomId, userId)
  \/ \E c \in Conns : \E roomId \in in.rooms[c], stroke \in in.strokes :
       OnStrokeAdd(c, roomId, stroke, in.cap)
  \/ \E c \in Conns : \E roomId \in in.rooms[c], streamData \in StreamInputs :
       OnStrokeStream(c, roomId, streamData)
  \/ \E c \in Conns : \E roomId \in in.rooms[c], userId \in in.users[c],
        position \in in.positions[c] :
       OnCursorMove(c, roomId, userId, position)
  \/ \E c \in Conns : \E roomId \in in.rooms[c] : OnCanvasUndo(c, roomId)
  \/ \E c \in Conns : \E roomId \in in.rooms[c] : OnCanvasRedo(c, roomId)
  \/ \E c \in Conns : \E roomId \in in.rooms[c] : OnCanvasClear(c, roomId)
  \/ \E c \in Conns : \E roomId \in in.rooms[c] : OnRoomDeleted(c, roomId)
  \/ \E c \in Conns : OnDisconnect(c)

Next == Step(Presence)

NextDraw == Step(Drawing)

Spec == Init /\ [][Next]_vars

SpecDraw == Init /\ [][NextDraw]_vars

\* =================================================================== claims
\* C1. Undo/redo inverse law: N stroke-adds on a room with an empty log
\* produce the log [S1..SN]; N undos then leave the log empty and the redo
\* stack [SN..S1]; N redos after that restore the log [S1..SN] and leave the
\* redo stack empty.
C1_UndoRedoInverse ==
  \A r \in DOMAIN rooms :
    run[r].live =>
      LET N == Len(run[r].adds) IN
      /\ (run[r].undos = 0 /\ run[r].redos = 0) => rooms[r].strokes = run[r].adds
      /\ (run[r].undos = N /\ run[r].redos = 0) =>
           /\ rooms[r].strokes = << >>
           /\ rooms[r].redoStack = Reverse(run[r].adds)
      /\ (run[r].undos = N /\ run[r].redos = N) =>
           /\ rooms[r].strokes = run[r].adds
           /\ rooms[r].redoStack = << >>

\* two different strokes appended, both undone, both redone
C1_Witness ==
  /\ last.op = "canvas:redo"
  /\ "r1" \in DOMAIN rooms
  /\ run["r1"] = [live |-> TRUE, adds |-> << S1, S2 >>, undos |-> 2, redos |-> 2]

\* C2. Append invalidates redo: right after a stroke-add on a room in the
\* registry the room's redo stack is empty and the stroke is the last element
\* of its log, whatever the redo stack held before; a canvas-redo by any
\* connection would then change nothing and emit nothing.
C2_AppendInvalidatesRedo ==
  (last.op = "stroke:add" /\ last.known) =>
    /\ last.roomId \in DOMAIN rooms
    /\ rooms[last.roomId].redoStack = << >>
    /\ Len(rooms[last.roomId].strokes) = Len(last.pre.strokes) + 1
    /\ LastOf(rooms[last.roomId].strokes) = last.stroke
    /\ \A c \in Conns :
         LET res == CanvasRedo(rooms, status, joined, currentRoomId, currentUserId,
                               c, last.roomId)
         IN res.rooms = rooms /\ res.trace = << >>

\* a stroke appended while the redo stack held two undone strokes
C2_Witness ==
  /\ last.op = "stroke:add" /\ last.known
  /\ Len(last.pre.redoStack) = 2
  /\ rooms[last.roomId].redoStack = << >>

\* C3. Undo is room-global: an undo on a room with a non-empty log removes
\* the last stroke of the log (the one appended or redone most recently that is
\* still there) and puts it on top of the redo stack, whichever connection
\* sends it and whoever authored the stroke; after S1 by A and S2 by B one undo
\* leaves the log [S1] and the redo stack [S2].
C3_UndoRoomGlobal ==
  /\ (last.op = "canvas:undo" /\ last.known /\ Len(last.pre.strokes) > 0) =>
       /\ last.roomId \in DOMAIN rooms
       /\ rooms[last.roomId].strokes = Front(last.pre.strokes)
       /\ rooms[last.roomId].redoStack =
            Append(last.pre.redoStack, LastOf(last.pre.strokes))
  /\ \A r \in DOMAIN rooms :
       (run[r].live /\ run[r].adds = << S1, S2 >> /\ run[r].undos = 1) =>
         rooms[r].strokes = << S1 >> /\ rooms[r].redoStack = << S2 >>

\* c1, joined as A, undoes S2 authored by B; S1 authored by A stays
C3_Witness ==
  /\ last.op = "canvas:undo" /\ last.conn = "c1" /\ currentUserId["c1"] = "A"
  /\ last.pre.strokes = << S1, S2 >>
  /\ rooms[last.roomId].strokes = << S1 >>
  /\ rooms[last.roomId].redoStack = << S2 >>

\* C4. Empty-stack no-op: an undo on a room with an empty log, and a redo on a
\* room with an empty redo stack, leave the room (log, redo stack,
\* participants) as it was and emit nothing.
C4_EmptyStackNoOp ==
  /\ (last.op = "canvas:undo" /\ last.known /\ Len(last.pre.strokes) = 0) =>
       /\ last.roomId \in DOMAIN rooms
       /\ rooms[last.roomId] = last.pre
       /\ trace = << >>
  /\ (last.op = "canvas:redo" /\ last.known /\ Len(last.pre.redoStack) = 0) =>
       /\ last.roomId \in DOMAIN rooms
       /\ rooms[last.roomId] = last.pre
       /\ trace = << >>

\* an undo on an empty log while members are subscribed and the redo stack is
\* not empty
C4_Witness ==
  /\ last.op = "canvas:undo" /\ last.known
  /\ last.pre.strokes = << >> /\ last.pre.redoStack # << >>
  /\ IoTo(status, joined, last.roomId) = Conns
  /\ trace = << >>

\* C5. Room lifecycle: after every handler, every room in the registry has at
\* least one participant (a room goes in the step that empties it).
C5_NoEmptyRoom ==
  \A r \in DOMAIN rooms : Len(rooms[r].users) >= 1

\* the rooms a connection is present in: it is subscribed to the room's
\* fan-out and a participant record it registered is in the room
PresentIn(c) ==
  {r \in DOMAIN rooms :
     /\ r \in joined[c]
     /\ \E u \in UserIdsOf(rooms[r].users) : registeredBy[<<r, u>>] = c}

\* C6. At most one room per connection: a live connection is present in at
\* most one room.
C6_AtMostOneRoom ==
  \A c \in Conns : status[c] = "live" => Cardinality(PresentIn(c)) <= 1

\* C7. Room-switch ordering: a join-room by a connection whose binding names a
\* room R1 of the registry first removes the participant from R1 and emits
\* R1's participant-left and participants-list, and only then adds the
\* participant to R2 and emits R2's room-joined, participant-joined and
\* participants-list.
C7_SwitchOrdering ==
  (last.op = "room:join" /\ Truthy(last.preRoomId) /\ last.bound) =>
    LET R1 == last.preRoomId
        R2 == last.roomId
        u1 == last.preUserId
    IN /\ Len(trace) = 7
       /\ trace[1] = Mut("users.delete", R1, u1)
       /\ trace[2].kind = "user:leave" /\ trace[2].roomId = R1
       /\ trace[2].payload = [userId |-> u1]
       /\ trace[3].kind = "users:list" /\ trace[3].roomId = R1
       /\ ~UsersHas(trace[3].payload, u1)
       /\ trace[4] = Mut("users.set", R2, last.userId)
       /\ \A i \in 5..7 : trace[i].roomId = R2
       /\ << trace[5].kind, trace[6].kind, trace[7].kind >> =
            << "room:joined", "user:join", "users:list" >>
       /\ UsersHas(trace[7].payload, last.userId)
       /\ R1 # R2 => (R1 \in DOMAIN rooms /\ ~UsersHas(rooms[R1].users, u1))

\* c1 switches from r1 to r2 while c2 is subscribed to r1 and is told
C7_Witness ==
  /\ last.op = "room:join" /\ last.bound
  /\ last.preRoomId = "r1" /\ last.roomId = "r2"
  /\ Len(trace) = 7
  /\ trace[2].to = {"c2"} /\ trace[3].to = {"c2"}

\* C8 as stated. Join/leave round trip: join-room(r, p) directly followed by
\* leave-room(r, p) on the same connection leaves r's participant set as it
\* was before the join, and r absent if that was the empty set.
C8_RoundTrip ==
  (last.op = "room:leave" /\ last.trip.ok) =>
    /\ UserIdsOf(RoomUsers(rooms, last.roomId)) = UserIdsOf(last.trip.users)
    /\ last.trip.users = << >> => last.roomId \notin DOMAIN rooms

\* C8 amended. The round trip restores r's participants (ids, records and
\* order) when, before the join, p is not in r and the connection is not
\* bound to r under an id that is in r; r is absent afterwards if it had no
\* participant.
C8_RoundTripFresh ==
  ( /\ last.op = "room:leave" /\ last.trip.ok
    /\ last.userId \notin UserIdsOf(last.trip.users)
    /\ ~(/\ last.trip.preRoomId = last.roomId
         /\ last.trip.preUserId \in UserIdsOf(last.trip.users)) ) =>
    /\ RoomUsers(rooms, last.roomId) = last.trip.users
    /\ last.trip.users = << >> => last.roomId \notin DOMAIN rooms

\* c2 joins r1 as B next to c1's A and leaves again
C8_Witness ==
  /\ last.op = "room:leave" /\ last.trip.ok
  /\ last.conn = "c2" /\ last.userId = "B"
  /\ UserIdsOf(last.trip.users) = {"A"}
  /\ UserIdsOf(RoomUsers(rooms, last.roomId)) = {"A"}

\* C9. No carry-over after the last leaver: a join-room to a room that has no
\* participant (its last one has left, or it never had one) is answered with
\* a room-joined snapshot whose stroke log is empty, and the room's redo
\* stack is empty.
C9_NoCarryOver ==
  (last.op = "room:join" /\ Len(last.pre.users) = 0) =>
    /\ \A i \in 1..Len(trace) :
         trace[i].kind = "room:joined" => trace[i].payload.strokes = << >>
    /\ rooms[last.roomId].redoStack = << >>

\* what each handler other than join-room returns for an event naming roomId
UnknownRoomResults(c, roomId) ==
  {LeaveRoom(rooms, status, joined, currentRoomId, currentUserId, c, roomId, u) :
     u \in UserIds}
  \cup {StrokeAdd(rooms, status, joined, currentRoomId, currentUserId, c, roomId, str) :
          str \in {S1, S2}}
  \cup {StrokeStream(rooms, status, joined, currentRoomId, currentUserId, c, roomId, d) :
          d \in StreamInputs}
  \cup {CursorMove(rooms, status, joined, currentRoomId, currentUserId, c, roomId, u, Null) :
          u \in UserIds}
  \cup {CanvasUndo(rooms, status, joined, currentRoomId, currentUserId, c, roomId),
        CanvasRedo(rooms, status, joined, currentRoomId, currentUserId, c, roomId),
        CanvasClear(rooms, status, joined, currentRoomId, currentUserId, c, roomId),
        RoomDeleted(rooms, status, joined, currentRoomId, currentUserId, c, roomId)}

\* C10. Unknown room is a silent no-op: leave-room, stroke-add, stroke-stream,
\* cursor-move, canvas-undo, canvas-redo, canvas-clear and room-deleted naming
\* a room that is not in the registry leave the registry and the sender's
\* binding as they were and deliver no event to any connection.
C10_UnknownRoomNoOp ==
  /\ ( /\ last.op \in {"room:leave", "stroke:add", "stroke:stream", "cursor:move",
                       "canvas:undo", "canvas:redo", "canvas:clear", "room:deleted"}
       /\ ~last.known ) =>
       /\ currentRoomId[last.conn] = last.preRoomId
       /\ currentUserId[last.conn] = last.preUserId
       /\ \A i \in 1..Len(trace) : trace[i].to = {}
  /\ \A c \in Conns, roomId \in RoomIds \ DOMAIN rooms :
       status[c] = "live" =>
         \A res \in UnknownRoomResults(c, roomId) : res.rooms = rooms

\* a member of room r: a live connection whose binding names r and whose
\* participant is in r's participant map
Member(c, r) ==
  /\ status[c] = "live"
  /\ currentRoomId[c] = r
  /\ r \in DOMAIN rooms
  /\ UsersHas(rooms[r].users, currentUserId[c])

\* C11. Whole-room fan-out of undo/redo: a canvas-undo or canvas-redo that
\* changes a room's log emits exactly one canvas-state event, delivered to
\* every member of the room and to the connection that issued the operation,
\* whose strokes payload is the room's log after the operation.
C11_UndoRedoFanOut ==
  ( /\ last.op \in {"canvas:undo", "canvas:redo"} /\ last.known
    /\ rooms[last.roomId].strokes # last.pre.strokes ) =>
    /\ Len(trace) = 1
    /\ trace[1].kind = "canvas:state" /\ trace[1].roomId = last.roomId
    /\ trace[1].payload = [strokes |-> rooms[last.roomId].strokes]
    /\ \A c \in Conns : Member(c, last.roomId) => c \in trace[1].to
    /\ last.conn \in trace[1].to

\* connection c is joined only to a room other than r: it is a member of
\* another room and no participant record of r was written by a join of c
JoinedOnlyElsewhere(c, r) ==
  /\ \E r2 \in DOMAIN rooms : r2 # r /\ Member(c, r2)
  /\ ~Member(c, r)
  /\ \A u \in UserIdsOf(RoomUsers(rooms, r)) : registeredBy[<<r, u>>] # c

\* C12. Sender-excluded fan-out: stroke-add, stroke-stream and cursor-move on
\* a room in the registry emit one stroke-added, stream-point or
\* cursor-updated event that the originating connection does not receive,
\* that every other member of the room receives, and that no connection
\* joined only to a different room receives.
C12_SenderExcluded ==
  ( /\ last.op \in {"stroke:add", "stroke:stream", "cursor:move"}
    /\ last.known ) =>
    /\ Len(trace) = 1
    /\ trace[1].roomId = last.roomId
    /\ trace[1].kind = (CASE last.op = "stroke:add" -> "stroke:received"
                          [] last.op = "stroke:stream" -> "stroke:stream:received"
                          [] last.op = "cursor:move" -> "cursor:update")
    /\ last.conn \notin trace[1].to
    /\ \A c \in Conns \ {last.conn} : Member(c, last.roomId) => c \in trace[1].to
    /\ \A c \in Conns : JoinedOnlyElsewhere(c, last.roomId) => c \notin trace[1].to

\* C13. Disconnect equals leave: when a connection that joined room r as
\* participant p (its join wrote p's record, the record is still in r and the
\* connection is still subscribed to r) disconnects, the registry and the
\* events delivered are those of a leave-room(r, p): p leaves r's participant
\* map, the remaining sockets of r receive participant-left for p and the
\* updated participants list, and r is removed if it became empty.
C13_DisconnectIsLeave ==
  [][ \A c \in Conns :
        (status[c] = "live" /\ status'[c] = "closed") =>
          \A r \in PresentIn(c) :
            \A p \in UserIdsOf(rooms[r].users) :
              registeredBy[<<r, p>>] = c =>
                LET lv == LeaveRoom(rooms, status', [joined EXCEPT ![c] = {}],
                                    currentRoomId, currentUserId, c, r, p)
                IN /\ rooms' = lv.rooms
                   /\ trace' = lv.trace ]_vars

\* C14. Join effects: the last three effects of join-room(r, p) are one
\* room-joined snapshot for the joiner alone, holding r's participants with p
\* among them and r's stroke log; a participant-joined for p that every other
\* member of r receives and the joiner does not; and a participants-list
\* equal to r's participants after the join that every member of r, the
\* joiner included, receives.
C14_JoinEffects ==
  last.op = "room:join" =>
    LET r == last.roomId
        n == Len(trace)
    IN /\ n >= 4
       /\ r \in DOMAIN rooms
       /\ UsersHas(rooms[r].users, last.userId)
       /\ Cardinality({i \in 1..n : trace[i].kind = "room:joined"}) = 1
       /\ trace[n - 2].kind = "room:joined" /\ trace[n - 2].roomId = r
       /\ trace[n - 2].to = {last.conn}
       /\ trace[n - 2].payload = [users |-> rooms[r].users, strokes |-> rooms[r].strokes]
       /\ last.known => trace[n - 2].payload.strokes = last.pre.strokes
       /\ Cardinality({i \in 1..n : trace[i].kind = "user:join"}) = 1
       /\ trace[n - 1].kind = "user:join" /\ trace[n - 1].roomId = r
       /\ trace[n - 1].payload.id = last.userId
       /\ last.conn \notin trace[n - 1].to
       /\ \A c \in Conns \ {last.conn} : Member(c, r) => c \in trace[n - 1].to
       /\ trace[n].kind = "users:list" /\ trace[n].roomId = r
       /\ trace[n].payload = rooms[r].users
       /\ Member(last.conn, r)
       /\ \A c \in Conns : Member(c, r) => c \in trace[n].to

\* A joins r1 from c1, then B joins r1 from c2: both receive [A, B], c1 alone
\* receives participant-joined for B
C14_Witness ==
  /\ last.op = "room:join" /\ last.conn = "c2" /\ last.userId = "B"
  /\ last.roomId = "r1" /\ Len(trace) = 4
  /\ Member("c1", "r1") /\ currentUserId["c1"] = "A"
  /\ trace[2].to = {"c2"}
  /\ trace[3].to = {"c1"}
  /\ trace[4].to = {"c1", "c2"}
  /\ << trace[4].payload[1].id, trace[4].payload[2].id >> = << "A", "B" >>
  /\ Len(trace[4].payload) = 2

\* C15. Clear: canvas-clear on a room in the registry leaves its stroke log
\* and its redo stack empty and its participants as they were, and emits one
\* canvas-cleared event that every member of the room receives, the sender
\* not excepted; a canvas-undo or canvas-redo on that room by any connection
\* in the state the clear leaves changes nothing and emits nothing.
C15_Clear ==
  (last.op = "canvas:clear" /\ last.known) =>
    LET r == last.roomId
    IN /\ r \in DOMAIN rooms
       /\ rooms[r].strokes = << >> /\ rooms[r].redoStack = << >>
       /\ rooms[r].users = last.pre.users
       /\ Len(trace) = 1
       /\ trace[1].kind = "canvas:cleared" /\ trace[1].roomId = r
       /\ \A c \in Conns : Member(c, r) => c \in trace[1].to
       /\ \A c \in Conns :
            status[c] = "live" =>
              \A res \in {CanvasUndo(rooms, status, joined, currentRoomId, currentUserId, c, r),
                          CanvasRedo(rooms, status, joined, currentRoomId, currentUserId, c, r)} :
                res.rooms = rooms /\ res.trace = << >>

\* c1 clears r1, which holds a stroke in its log and one in its redo stack,
\* while c1 and c2 are both members: both receive canvas-cleared
C15_Witness ==
  /\ last.op = "canvas:clear" /\ last.known /\ last.conn = "c1"
  /\ last.pre.strokes # << >> /\ last.pre.redoStack # << >>
  /\ Member("c1", last.roomId) /\ Member("c2", last.roomId)
  /\ Len(trace) = 1 /\ trace[1].to = {"c1", "c2"}
  /\ rooms[last.roomId].strokes = << >> /\ rooms[last.roomId].redoStack = << >>

\* the stroke log of room r in registry rs, empty when r is not there
LogOf(rs, r) == IF r \in DOMAIN rs THEN rs[r].strokes ELSE << >>

\* C16. Stream points are transient: a stroke-stream event leaves the whole
\* registry (every room's stroke log, redo stack and participants, and the
\* set of rooms) as it was; and in every step in which a room's log gains an
\* entry or gets a different entry at some position, the event handled is a
\* stroke-add or a canvas-redo naming that room.
C16_StreamTransient ==
  [][ /\ last'.op = "stroke:stream" => rooms' = rooms
      /\ \A r \in DOMAIN rooms' :
           (\E i \in 1..Len(rooms'[r].strokes) :
              i > Len(LogOf(rooms, r)) \/ rooms'[r].strokes[i] # LogOf(rooms, r)[i]) =>
             /\ last'.op \in {"stroke:add", "canvas:redo"}
             /\ last'.roomId = r ]_vars

\* a stream point naming r1 is relayed to the other socket of r1 while r1's
\* log holds a stroke
C16_Witness ==
  /\ last.op = "stroke:stream" /\ last.known /\ last.roomId = "r1"
  /\ Len(rooms["r1"].strokes) = 1
  /\ Len(trace) = 1 /\ trace[1].kind = "stroke:stream:received"
  /\ trace[1].to # {}

\* C17. Owner deletion: room-deleted naming a room r of the registry emits
\* one room-deleted event {roomId, reason}, received by every connection that
\* was a member of r, and only then evicts r, which is absent afterwards
\* however many participants it had; and every step that puts a room id
\* (back) into the registry is a join-room to it that leaves it with the
\* joiner as only participant, an empty stroke log and an empty redo stack,
\* and answers with a snapshot without strokes.
C17_OwnerDeletion ==
  [][ /\ (last'.op = "room:deleted" /\ last'.known) =>
           LET r == last'.roomId
           IN /\ r \in DOMAIN rooms /\ r \notin DOMAIN rooms'
              /\ Len(trace') = 2
              /\ trace'[1].kind = "room:deleted" /\ trace'[1].roomId = r
              /\ trace'[1].payload = [roomId |-> r, reason |-> "Room deleted by owner"]
              /\ \A c \in Conns : Member(c, r) => c \in trace'[1].to
              /\ trace'[2] = Mut("rooms.delete", r, Null)
      /\ \A r \in (DOMAIN rooms') \ (DOMAIN rooms) :
           /\ last'.op = "room:join" /\ last'.roomId = r
           /\ Len(rooms'[r].users) = 1 /\ rooms'[r].users[1].id = last'.userId
           /\ rooms'[r].strokes = << >> /\ rooms'[r].redoStack = << >>
           /\ \A i \in 1..Len(trace') :
                trace'[i].kind = "room:joined" => trace'[i].payload.strokes = << >> ]_vars

\* r1 is deleted while it holds a stroke and c1 and c2 are both members: both
\* receive room-deleted, then r1 is gone
C17_Witness ==
  /\ last.op = "room:deleted" /\ last.known /\ last.roomId = "r1"
  /\ Len(last.pre.users) = 2 /\ last.pre.strokes # << >>
  /\ currentRoomId["c1"] = "r1" /\ currentRoomId["c2"] = "r1"
  /\ Len(trace) = 2 /\ trace[1].to = {"c1", "c2"}
  /\ "r1" \notin DOMAIN rooms

\* C18. No leaked rooms: in every state in which no connection is live and at
\* least one has been (every connection that connected has disconnected), the
\* registry holds no room.
C18_NoLeakedRooms ==
  ( /\ \A c \in Conns : status[c] # "live"
    /\ \E c \in Conns : status[c] = "closed" ) =>
    DOMAIN rooms = {}

RoomScopedKinds ==
  {"users:list", "user:join", "user:leave", "stroke:received",
   "stroke:stream:received", "cursor:update", "canvas:state", "canvas:cleared"}

\* C19. Recipients are participants: every connection to which the last
\* handler delivered a room-scoped event for room r is joined to r when the
\* handler is done: its binding names r, r is in the registry and the
\* participant the binding names is in r's participant map.
C19_RecipientsAreParticipants ==
  \A i \in 1..Len(trace) :
    trace[i].kind \in RoomScopedKinds =>
      \A c \in trace[i].to : Member(c, trace[i].roomId)

\* the strokes a room holds in drawing order: its log followed by its redo
\* stack from top to bottom; empty for a room that is not in the registry
Timeline(rs, r) ==
  IF r \in DOMAIN rs THEN rs[r].strokes \o Reverse(rs[r].redoStack) ELSE << >>

\* C20. Stroke conservation under undo/redo: a canvas-undo or canvas-redo by
\* any connection leaves, for every room, the stroke log followed by the
\* reversed redo stack as it was; a step that changes this sequence for a
\* room is a stroke-add or canvas-clear naming the room, or removes the room
\* from the registry.
C20_StrokeConservation ==
  [][ \A r \in RoomIds :
        /\ last'.op \in {"canvas:undo", "canvas:redo"} =>
             Timeline(rooms', r) = Timeline(rooms, r)
        /\ Timeline(rooms', r) # Timeline(rooms, r) =>
             \/ last'.op \in {"stroke:add", "canvas:clear"} /\ last'.roomId = r
             \/ r \in DOMAIN rooms /\ r \notin DOMAIN rooms' ]_vars

\* c2 undoes a stroke while r1 already holds two in its redo stack, after
\* which the log is empty and all three strokes are in the redo stack
C20_Witness ==
  /\ last.op = "canvas:undo" /\ last.known /\ last.conn = "c2"
  /\ Len(last.pre.strokes) = 1 /\ Len(last.pre.redoStack) = 2
  /\ rooms[last.roomId].strokes = << >>
  /\ Len(rooms[last.roomId].redoStack) = 3
  /\ Len(trace) = 1
====
